---- MODULE Spec2Model ----
(***************************************************************************)
(* Attention portfolio manager: the correlation engine and the             *)
(* recommendation generator of DataPipeline (src/src/data/etl_pipeline.py),*)
(* the keyword categorizer (categorize_event, match_category), the daily   *)
(* allocation and the insight generator (calculate_attention,              *)
(* identify_patterns), the record normalizers (_process_events,            *)
(* get_calendar_events) and run_full_pipeline on the database.             *)
(*                                                                         *)
(* Numbers.  Durations are integers (time_entries.duration INTEGER).       *)
(* Percentages are exact fractions n/d; the one-decimal values the code    *)
(* reports with round(x, 1) are integers counting tenths of a percent, and *)
(* the two-decimal coefficients of round(corr, 2) are integers counting    *)
(* hundredths.  An exact tie is rounded to the even neighbour.             *)
(***************************************************************************)
EXTENDS Integers, Sequences, FiniteSets, Bags, TLC

VARIABLES
    store,      \* bag of day rows: time_entries JOIN activities, grouped by
                \* date, LEFT JOINed with outcome_metrics on the date
    patterns,   \* what the last analyze_patterns() returned for this store
    runs,       \* what the generate_recommendations() calls returned for this store
    event,      \* the calendar event handed to the categorizers
    labels,     \* what the categorizer calls returned for this event
    events_df,  \* the event rows of get_calendar_events, with their Theme
    attention_df, \* what calculate_attention() returned for these rows
    groupby_observed, \* the default of groupby(observed=...) of the installed
                      \* pandas: False before pandas 3, True from pandas 3 on
    insights,   \* what identify_patterns() returned for these rows
    raw_events, \* the 'items' the calendar API returned for one request
    event_data, \* what _process_events() returned for these items
    event_list, \* what get_calendar_events() returned for these items
    time_entries,    \* ppm.db: date -> minutes per domain (time_entries JOIN activities)
    emotion_metrics, \* ppm.db: date -> overall_sentiment, in hundredths
    outcome_metrics, \* ppm.db: date -> happiness, peace, freedom, well_being
    pc,              \* the step run_full_pipeline is about to attempt
    journal_path,    \* whether the run was given a journal_path
    results,         \* the results dict of the run
    attempted,       \* the steps the run has called, in call order
    pipeline_runs,   \* how many runs were started
    metric_runs,     \* outcome rows and correlation result of each run of
                     \* steps 3 and 4 on the present inputs
    error_log,       \* the steps of the run whose function left through its
                     \* except clause and logged an error
    activities,      \* ppm.db: the rows of the activities table
    time_entry_rows, \* ppm.db: the rows of the time_entries table, one per insert
    save_log         \* the batches save_to_database saved, with the row counts
                     \* it left

engineVars == <<store, patterns, runs>>

categorizerVars == <<event, labels>>

insightVars == <<events_df, attention_df, groupby_observed, insights>>

normalizerVars == <<raw_events, event_data, event_list>>

databaseVars == <<time_entries, emotion_metrics, outcome_metrics>>

pipelineVars == <<time_entries, emotion_metrics, outcome_metrics, pc, journal_path,
                  results, attempted, pipeline_runs, metric_runs, error_log>>

connectorVars == <<activities, time_entry_rows, save_log>>

vars == <<store, patterns, runs, event, labels, events_df, attention_df,
          groupby_observed, insights,
          raw_events, event_data, event_list,
          time_entries, emotion_metrics, outcome_metrics, pc, journal_path,
          results, attempted, pipeline_runs, metric_runs, error_log,
          activities, time_entry_rows, save_log>>

----------------------------------------------------------------------------
(* Bounds of the model                                                     *)

MaxHistoryDays == 5     \* days older than the 30-day window
MaxWindowDays == 1      \* days inside the 30-day window
MaxRuns == 2            \* generate_recommendations() calls on one store
MaxCalls == 2           \* categorizer calls on one event
MaxEvents == 4          \* calendar events in the fetched period
MaxDate == 5            \* calendar dates of the fetched period
MaxBatch == 2           \* raw events in one calendar response
MaxPipelineRuns == 2    \* run_full_pipeline() calls on one database
MaxSaves == 2           \* save_to_database() calls on one database
MaxBatchEvents == 2     \* events in the frame of one save_to_database() call

----------------------------------------------------------------------------
(* Values                                                                  *)

Null == -1              \* SQL NULL / pandas NaN in an outcome metric column

Metrics == <<"happiness", "peace", "freedom", "well_being">>

\* pivot_table orders its columns, so the domain columns are walked in
\* lexicographic order
DomainOrder == <<"Charging", "Connection", "Generation", "Growth", "Other", "Vitality">>

Outcome(h, p, f, w) == [happiness |-> h, peace |-> p, freedom |-> f, well_being |-> w]

DayRow(m, o, isRecent) == [mins |-> m, om |-> o, recent |-> isRecent]

----------------------------------------------------------------------------
(* Exact arithmetic helpers                                                *)

Abs(x) == IF x < 0 THEN -x ELSE x

Min(a, b) == IF a < b THEN a ELSE b

Max(a, b) == IF a > b THEN a ELSE b

RECURSIVE SumSeq(_)
SumSeq(s) == IF s = <<>> THEN 0 ELSE Head(s) + SumSeq(Tail(s))

\* a/b < c/d for a, c >= 0 and b, d > 0, by continued fractions (no products)
RECURSIVE FracLess(_, _, _, _)
FracLess(a, b, c, d) ==
    LET qa == a \div b
        qc == c \div d
        ra == a % b
        rc == c % d
    IN  IF qa # qc THEN qa < qc
        ELSE IF rc = 0 THEN FALSE
        ELSE IF ra = 0 THEN TRUE
        ELSE FracLess(d, rc, b, ra)

\* p/q (q > 0) rounded to the nearest integer, ties to even
RoundDiv(p, q) ==
    LET f == p \div q
        r == p % q
    IN  IF 2 * r < q THEN f
        ELSE IF 2 * r > q THEN f + 1
        ELSE IF f % 2 = 0 THEN f ELSE f + 1

----------------------------------------------------------------------------
(* The store as the queries see it                                         *)

\* the rows of the bag in some fixed order, each as often as it occurs
RECURSIVE SeqOfBag(_)
SeqOfBag(B) ==
    IF BagToSet(B) = {} THEN <<>>
    ELSE LET r == CHOOSE x \in BagToSet(B) : TRUE
         IN  <<r>> \o SeqOfBag(B (-) SetToBag({r}))

HasAllMetrics(row) ==
    /\ row.om.happiness # Null
    /\ row.om.peace # Null
    /\ row.om.freedom # Null
    /\ row.om.well_being # Null

\* df of analyze_patterns: one line per (day, domain) with an entry that day,
\* WHERE om.happiness IS NOT NULL
DfRows(S) == SelectSeq(SeqOfBag(S), LAMBDA row : DOMAIN row.mins # {} /\ row.om.happiness # Null)

\* pivot_df: one line per day; pivot_table groups on the index columns and a
\* group whose key holds a NaN is dropped, so a day needs all four metrics
PivotRows(S) == SelectSeq(DfRows(S), HasAllMetrics)

\* the domain columns of pivot_df, in column order
DomainColumns(P) ==
    SelectSeq(DomainOrder, LAMBDA d : \E i \in 1..Len(P) : d \in DOMAIN P[i].mins)

\* pivot_df[domain]: minutes, with fill_value=0 where the day has no entry
DomainSeries(P, d) ==
    [i \in 1..Len(P) |-> IF d \in DOMAIN P[i].mins THEN P[i].mins[d] ELSE 0]

MetricSeries(P, m) == [i \in 1..Len(P) |-> P[i].om[m]]

NotNaCount(P, m) == Cardinality({i \in 1..Len(P) : P[i].om[m] # Null})

----------------------------------------------------------------------------
(* Pearson correlation, Series.corr, and round(corr, 2)                    *)

Products(x, y) == [i \in 1..Len(x) |-> x[i] * y[i]]

\* n*Sxy - Sx*Sy
Covariance(x, y) == Len(x) * SumSeq(Products(x, y)) - SumSeq(x) * SumSeq(y)

Variance(x) == Covariance(x, x)

\* corr is NaN when either series has no variance
CorrIsNaN(x, y) == Variance(x) = 0 \/ Variance(y) = 0

\* num / sqrt(V) >= p / q, for q > 0 and num*num <= V
CorrAtLeast(num, V, p, q) ==
    IF p > 0
    THEN num > 0 /\ ~FracLess(num * num, V, p * p, q * q)
    ELSE num >= 0 \/ ~FracLess(p * p, q * q, num * num, V)

RECURSIVE Bisect(_, _, _, _)
Bisect(num, V, lo, hi) ==
    IF hi - lo <= 1 THEN lo
    ELSE LET mid == (lo + hi) \div 2
         IN  IF CorrAtLeast(num, V, 2 * mid - 1, 200)
             THEN Bisect(num, V, mid, hi)
             ELSE Bisect(num, V, lo, mid)

\* round(corr, 2) in hundredths
RoundedCorr(x, y) ==
    LET num == Covariance(x, y)
        V == Variance(x) * Variance(y)
        k == Bisect(num, V, -100, 101)
        tie == /\ CorrAtLeast(num, V, 2 * k - 1, 200)
               /\ CorrAtLeast(-num, V, 1 - 2 * k, 200)
    IN  IF tie /\ k % 2 # 0 THEN k - 1 ELSE k

----------------------------------------------------------------------------
(* DataPipeline.analyze_patterns                                           *)

\* sorted(list, key=...) with the keys k[i] of the elements s[i]; the sort
\* is stable: elements with equal keys keep their order
SortedStable(s, k) ==
    LET pos(i) == Cardinality({j \in 1..Len(s) : k[j] < k[i]})
                  + Cardinality({j \in 1..i : k[j] = k[i]})
    IN  [p \in 1..Len(s) |-> s[CHOOSE i \in 1..Len(s) : pos(i) = p]]

\* the return value {} of analyze_patterns
EmptyLists ==
    [empty |-> FALSE, positive_correlations |-> <<>>,
     negative_correlations |-> <<>>, correlation_matrix |-> <<>>]

NoPatterns ==
    [empty |-> TRUE, positive_correlations |-> <<>>,
     negative_correlations |-> <<>>, correlation_matrix |-> <<>>]

\* the (domain, metric) pairs in the order of the two nested loops
PairsInLoopOrder(cols) ==
    [i \in 1..(Len(cols) * Len(Metrics)) |->
        [domain |-> cols[((i - 1) \div Len(Metrics)) + 1],
         metric |-> Metrics[((i - 1) % Len(Metrics)) + 1]]]

\* correlations: the pairs that get a coefficient, with the coefficient
CorrelationMatrix(P) ==
    LET pairs == PairsInLoopOrder(DomainColumns(P))
        computed == SelectSeq(pairs, LAMBDA c :
                        /\ NotNaCount(P, c.metric) > 3
                        /\ ~CorrIsNaN(DomainSeries(P, c.domain), MetricSeries(P, c.metric)))
    IN  [i \in 1..Len(computed) |->
            [domain |-> computed[i].domain,
             metric |-> computed[i].metric,
             correlation |-> RoundedCorr(DomainSeries(P, computed[i].domain),
                                         MetricSeries(P, computed[i].metric))]]

\* a threshold that takes every coefficient above zero
IsPositiveAboveZero(value) == value > 0

\* `if value > 0.3`, on hundredths
IsPositive(value) == value > 30

\* `if value < -0.3`, on hundredths
IsNegative(value) == value < -30

analyze_patterns(S) ==
    LET P == PivotRows(S)
        correlations == CorrelationMatrix(P)
        positive == SelectSeq(correlations, LAMBDA c : IsPositive(c.correlation))
        negative == SelectSeq(correlations, LAMBDA c : IsNegative(c.correlation))
    IN  IF DfRows(S) = <<>> THEN NoPatterns
        ELSE IF DomainColumns(P) = <<>> \/ Len(P) < 5 THEN NoPatterns
        ELSE [empty |-> FALSE,
              positive_correlations |->
                  SortedStable(positive, [i \in 1..Len(positive) |-> -positive[i].correlation]),
              negative_correlations |->
                  SortedStable(negative, [i \in 1..Len(negative) |-> negative[i].correlation]),
              correlation_matrix |-> correlations]

----------------------------------------------------------------------------
(* DataPipeline.generate_recommendations                                   *)

\* the rows of the current-allocation query: start_time >= date('now','-30 day')
RecentRows(S) == SelectSeq(SeqOfBag(S), LAMBDA row : row.recent)

\* the domains the query returns a row for
AllocatedDomains(S) ==
    {d \in {DomainOrder[i] : i \in 1..Len(DomainOrder)} :
        \E i \in 1..Len(RecentRows(S)) : d \in DOMAIN RecentRows(S)[i].mins}

\* SUM(te.duration) of a domain over the window; 0 is also what
\* current_alloc_dict.get(domain, 0) gives a domain without a row
WindowMinutes(S, d) == SumSeq(DomainSeries(RecentRows(S), d))

total_minutes(S) ==
    SumSeq([i \in 1..Len(DomainOrder) |-> WindowMinutes(S, DomainOrder[i])])

\* current_pct as the fraction n/d with d > 0
PctNum(S, d) ==
    IF total_minutes(S) < 0 THEN -100 * WindowMinutes(S, d) ELSE 100 * WindowMinutes(S, d)

PctDen(S) == Abs(total_minutes(S))

DomainsOf(list) == {list[i].domain : i \in 1..Len(list)}

related_metrics(list, d) ==
    LET mine == SelectSeq(list, LAMBDA c : c.domain = d)
    IN  [i \in 1..Len(mine) |-> mine[i].metric]

\* round(min(current_pct * 1.5, current_pct + 15), 1) for current_pct = n/d
IncreaseSuggestedMax(n, d) == RoundDiv(5 * Max(3 * n, 2 * n + 30 * d), d)

IncreaseSuggested(n, d) == RoundDiv(5 * Min(3 * n, 2 * n + 30 * d), d)

\* the branch of the first loop for one domain; n/d is current_pct
PositiveRecommendation(domain, n, d, metrics) ==
    IF n < 10 * d
    THEN [domain |-> domain, action |-> "increase",
          reason |-> <<"Strongly correlates with", metrics>>,
          current_percentage |-> RoundDiv(10 * n, d),
          suggested_percentage |-> IncreaseSuggested(n, d),
          priority |-> IF n < 5 * d THEN "high" ELSE "medium"]
    ELSE IF n < 25 * d
    THEN [domain |-> domain, action |-> "maintain",
          reason |-> <<"Positively impacts", metrics>>,
          current_percentage |-> RoundDiv(10 * n, d),
          suggested_percentage |-> RoundDiv(10 * n, d),
          priority |-> "medium"]
    ELSE [domain |-> domain, action |-> "optimize",
          reason |-> <<"Important for, but ensure quality over quantity", metrics>>,
          current_percentage |-> RoundDiv(10 * n, d),
          suggested_percentage |-> RoundDiv(10 * n, d),
          priority |-> "low"]

\* the branch of the second loop for one domain: a list of zero or one entry
NegativeRecommendation(domain, n, d, metrics) ==
    IF n > 20 * d
    THEN <<[domain |-> domain, action |-> "decrease",
            reason |-> <<"Negatively correlates with", metrics>>,
            current_percentage |-> RoundDiv(10 * n, d),
            suggested_percentage |-> RoundDiv(Max(7 * n, 10 * n - 150 * d), d),
            priority |-> IF n > 30 * d THEN "high" ELSE "medium"]>>
    ELSE IF n > 5 * d
    THEN <<[domain |-> domain, action |-> "review",
            reason |-> <<"May negatively impact", metrics>>,
            current_percentage |-> RoundDiv(10 * n, d),
            suggested_percentage |-> RoundDiv(9 * n, d),
            priority |-> "medium"]>>
    ELSE <<>>

\* if domain in high_value_domains: continue
ConflictingSignalsIgnored(domain, high_value_domains) == FALSE

ConflictingSignals(domain, high_value_domains) == domain \in high_value_domains

RECURSIVE Flatten(_)
Flatten(ss) == IF ss = <<>> THEN <<>> ELSE Head(ss) \o Flatten(Tail(ss))

\* priority_order.get(x['priority'], 3)
priority_order(p) ==
    CASE p = "high" -> 0
      [] p = "medium" -> 1
      [] p = "low" -> 2
      [] OTHER -> 3

SortByPriorityOmitted(recs) == recs

SortByPriority(recs) ==
    SortedStable(recs, [i \in 1..Len(recs) |-> priority_order(recs[i].priority)])

\* the orders in which a set of strings can be iterated
IterationOrders(D) ==
    {o \in [1..Cardinality(D) -> D] : \A i, j \in 1..Cardinality(D) : o[i] = o[j] => i = j}

\* highOrder and lowOrder are the orders in which the two sets are iterated
generate_recommendations(S, highOrder, lowOrder) ==
    LET pats == analyze_patterns(S)
        n(d) == PctNum(S, d)
        den == PctDen(S)
        high_value_domains == DomainsOf(pats.positive_correlations)
        fromPositive ==
            [i \in 1..Len(highOrder) |->
                PositiveRecommendation(highOrder[i], n(highOrder[i]), den,
                    related_metrics(pats.positive_correlations, highOrder[i]))]
        fromNegative ==
            Flatten([i \in 1..Len(lowOrder) |->
                IF ConflictingSignals(lowOrder[i], high_value_domains) THEN <<>>
                ELSE NegativeRecommendation(lowOrder[i], n(lowOrder[i]), den,
                        related_metrics(pats.negative_correlations, lowOrder[i]))])
    IN  IF pats.empty \/ pats.positive_correlations = <<>> THEN <<>>
        ELSE IF AllocatedDomains(S) = {} THEN <<>>
        ELSE IF total_minutes(S) = 0 THEN <<>>
        ELSE SortByPriority(fromPositive \o fromNegative)

----------------------------------------------------------------------------
(* Inputs: the day rows that imports put into the store                    *)

\* calculate_daily_metrics writes happiness, peace = happiness, freedom = 5
\* and well_being = happiness
LowDay == Outcome(3, 3, 5, 3)

HighDay == Outcome(8, 8, 5, 8)

\* a row whose peace was entered by hand
MixedDay == Outcome(8, 3, 5, 8)

\* the journal import inserts (date, happiness) only
JournalOnlyDay == Outcome(8, Null, Null, Null)

\* no outcome_metrics row for the date: the LEFT JOIN yields NULLs
NoOutcome == Outcome(Null, Null, Null, Null)

HistoryMins ==
    { ("Generation" :> 60), ("Connection" :> 60),
      ("Generation" :> 60 @@ "Connection" :> 60) }

HistoryDays ==
    {DayRow(m, o, FALSE) : m \in HistoryMins, o \in {LowDay, HighDay}}
    \cup {DayRow(("Generation" :> 60), MixedDay, FALSE),
          DayRow(("Generation" :> 60), JournalOnlyDay, FALSE)}

\* the minutes of the days inside the window; a duration is end - start of
\* the event and may be zero or negative
WindowMins ==
    { ("Generation" :> 20 @@ "Connection" :> 40 @@ "Other" :> 141),
      ("Generation" :> 10 @@ "Connection" :> 141 @@ "Other" :> 141),
      ("Generation" :> 10 @@ "Connection" :> 40 @@ "Other" :> 141),
      ("Generation" :> 20 @@ "Connection" :> -30 @@ "Other" :> 141),
      ("Generation" :> 20 @@ "Connection" :> 40),
      ("Generation" :> 20 @@ "Connection" :> 141),
      ("Connection" :> 141),
      ("Other" :> 0) }

WindowDays == {DayRow(m, NoOutcome, TRUE) : m \in WindowMins}

RowCount(S, isRecent) ==
    Len(SelectSeq(SeqOfBag(S), LAMBDA row : row.recent = isRecent))

----------------------------------------------------------------------------
(* The keyword categorizers: categorize_event and match_category           *)

UpperCase == "ABCDEFGHIJKLMNOPQRSTUVWXYZ"

LowerCase == "abcdefghijklmnopqrstuvwxyz"

\* str.lower() of one character
LowerChar(c) ==
    IF \E i \in 1..Len(UpperCase) : SubSeq(UpperCase, i, i) = c
    THEN LET i == CHOOSE i \in 1..Len(UpperCase) : SubSeq(UpperCase, i, i) = c
         IN  SubSeq(LowerCase, i, i)
    ELSE c

RECURSIVE Lower(_)
Lower(t) ==
    IF Len(t) = 0 THEN ""
    ELSE LowerChar(SubSeq(t, 1, 1)) \o Lower(SubSeq(t, 2, Len(t)))

\* term in text
Contains(text, term) ==
    \E i \in 1..(Len(text) - Len(term) + 1) : SubSeq(text, i, i + Len(term) - 1) = term

\* the dict of categorize_event, in insertion order
keywords ==
    <<
      [category |-> "Generation", terms |-> <<
         "create", "build", "develop", "design", "work", "project",
         "produce", "write", "code", "draft", "edit", "make", "generate",
         "create", "brainstorm"
      >>],
      [category |-> "Charging", terms |-> <<
         "rest", "relax", "recharge", "sleep", "meditate", "recovery",
         "break", "nap", "unwind", "breathe", "yoga", "self-care"
      >>],
      [category |-> "Growth", terms |-> <<
         "learn", "study", "read", "course", "training", "development",
         "skill", "improve", "practice", "master", "workshop", "webinar"
      >>],
      [category |-> "Connection", terms |-> <<
         "meet", "call", "chat", "coffee", "lunch", "dinner", "social",
         "friend", "family", "team", "collaborate", "network",
         "relationship"
      >>],
      [category |-> "Vitality", terms |-> <<
         "exercise", "gym", "workout", "run", "walk", "hike", "swim",
         "health", "doctor", "nutrition", "fitness", "physical"
      >>]
    >>

\* the dict of categorize_events, in insertion order
category_keywords ==
    <<
      [category |-> "Generation", terms |-> <<
         "create", "write", "draft", "author", "build", "develop", "code",
         "design", "produce", "generate", "make", "craft", "compose",
         "project", "implement", "program", "construct", "plan",
         "strategize", "brainstorm", "deep work", "focus", "flow"
      >>],
      [category |-> "Charging", terms |-> <<
         "rest", "sleep", "nap", "meditate", "relax", "recovery",
         "recharge", "break", "pause", "self-care", "downtime", "unwind",
         "leisure", "vacation", "holiday", "day off", "pto", "personal",
         "me time"
      >>],
      [category |-> "Growth", terms |-> <<
         "learn", "study", "read", "course", "class", "training",
         "development", "workshop", "seminar", "conference", "webinar",
         "education", "skill", "improve", "growth", "progress", "lecture",
         "tutorial", "lesson", "research", "explore", "practice"
      >>],
      [category |-> "Connection", terms |-> <<
         "meet", "call", "chat", "coffee", "lunch", "dinner", "social",
         "friend", "family", "network", "connect", "relationship", "date",
         "party", "gathering", "celebration", "hangout", "catch up",
         "reunion", "zoom", "teams", "google meet", "facetime", "1:1",
         "1-1", "one on one"
      >>],
      [category |-> "Vitality", terms |-> <<
         "gym", "workout", "exercise", "run", "jog", "yoga", "pilates",
         "health", "doctor", "medical", "dentist", "therapy", "fitness",
         "swim", "bike", "hike", "walk", "sport", "train", "physical",
         "nutrition", "diet", "massage", "stretch", "wellness"
      >>]
    >>

MatchedTerms(terms, text) == SelectSeq(terms, LAMBDA term : Contains(text, term))

\* the entries of the dict with a term in the text, in iteration order
MatchedEntries(table, text) ==
    SelectSeq(table, LAMBDA entry : MatchedTerms(entry.terms, text) # <<>>)

\* the category the loops return from, or the default behind the loops
LastMatch(table, text) ==
    IF MatchedEntries(table, text) = <<>> THEN "Other"
    ELSE MatchedEntries(table, text)[Len(MatchedEntries(table, text))].category

\* the loops end without the default return
NoDefault(table, text) ==
    IF MatchedEntries(table, text) = <<>> THEN "None"
    ELSE Head(MatchedEntries(table, text)).category

FirstMatch(table, text) ==
    IF MatchedEntries(table, text) = <<>> THEN "Other"
    ELSE Head(MatchedEntries(table, text)).category

\* (event_name + " " + description).lower()
TextOf(event_name, description) == Lower(event_name \o " " \o description)

\* returns (category, reason)
categorize_event(event_name, description) ==
    LET text == TextOf(event_name, description)
        category == FirstMatch(keywords, text)
    IN  IF MatchedEntries(keywords, text) = <<>>
        THEN <<category, "No matching keywords found">>
        ELSE <<category,
               "Matched keyword '"
               \o Head(MatchedTerms(Head(MatchedEntries(keywords, text)).terms, text))
               \o "'">>

match_category(row) ==
    FirstMatch(category_keywords, TextOf(row.summary, row.description))

----------------------------------------------------------------------------
(* identify_patterns                                                       *)

\* an event row: Date is the day number, Time and Minutes count minutes
\* ('Time' is hour + minute/60 and 'Event Total Time' is hours in the code)
EventRow(date, time, name, description, minutes) ==
    [Date |-> date, Time |-> time, EventName |-> name, Description |-> description,
     Minutes |-> minutes, Theme |-> categorize_event(name, description)[1],
     Time_Category |-> ""]

TimeCategories == <<"Morning", "Afternoon", "Evening">>

\* pd.cut(Time, bins=[0, 12, 17, 24]): intervals (0, 12], (12, 17], (17, 24];
\* a Time outside them gets NaN
Time_Category(t) ==
    IF 0 < t /\ t <= 720 THEN "Morning"
    ELSE IF 720 < t /\ t <= 1020 THEN "Afternoon"
    ELSE IF 1020 < t /\ t <= 1440 THEN "Evening"
    ELSE "NaN"

MinutesOf(E) == SumSeq([i \in 1..Len(E) |-> E[i].Minutes])

OfTheme(E, theme) == SelectSeq(E, LAMBDA e : e.Theme = theme)

\* groupby('Time_Category') of the Generation rows: the grouper is a
\* categorical, so every category has a sum, 0 without rows
time_productivity(E) ==
    [i \in 1..Len(TimeCategories) |->
        MinutesOf(SelectSeq(OfTheme(E, "Generation"),
                            LAMBDA e : Time_Category(e.Time) = TimeCategories[i]))]

\* idxmax(): the first label with the largest value
IdxMax(values) ==
    CHOOSE i \in 1..Len(values) :
        /\ \A j \in 1..Len(values) : values[j] <= values[i]
        /\ \A j \in 1..(i - 1) : values[j] < values[i]

LastDate(E) == IF E = <<>> THEN 0 ELSE E[Len(E)].Date

\* the dates of the frame, ascending
DatesOf(E) ==
    SelectSeq([date \in 1..LastDate(E) |-> date],
              LAMBDA date : \E i \in 1..Len(E) : E[i].Date = date)

\* the themes of one date in the order groupby sorts them
ThemesOn(E, date) ==
    SelectSeq(DomainOrder,
              LAMBDA theme : \E i \in 1..Len(E) : E[i].Date = date /\ E[i].Theme = theme)

OnDate(E, date) == SelectSeq(E, LAMBDA e : e.Date = date)

\* events_df.groupby('Date')['Event Total Time'].sum() for the date
TotalTimeOverall(E, date) == MinutesOf(E)

total_time_per_day(E, date) == MinutesOf(OnDate(E, date))

\* (amount / total) * 100 in float arithmetic: x/0 is inf or -inf, 0/0 is
\* NaN.  A finite value is kept in thousandths of a percent, rounded, which
\* is coarser than the rounding of a double
ThemePctAmount(amount, total) ==
    IF total = 0
    THEN IF amount = 0 THEN [kind |-> "nan", value |-> 0]
         ELSE [kind |-> "inf", value |-> IF amount > 0 THEN 1 ELSE -1]
    ELSE [kind |-> "finite",
          value |-> IF total > 0 THEN RoundDiv(100000 * amount, total)
                    ELSE RoundDiv(-100000 * amount, -total)]

\* one row per (Date, Theme) of the frame, merged with the total of the date
calculate_attention(E) ==
    Flatten([k \in 1..Len(DatesOf(E)) |->
        LET date == DatesOf(E)[k]
            themes == ThemesOn(E, date)
        IN  [j \in 1..Len(themes) |->
                [Date |-> date,
                 Timeframe |-> "day",
                 Theme |-> themes[j],
                 ThemeAbsoluteAmount |-> MinutesOf(OfTheme(OnDate(E, date), themes[j])),
                 ThemePct |-> ThemePctAmount(MinutesOf(OfTheme(OnDate(E, date), themes[j])),
                                             total_time_per_day(E, date))]]])

Insight(kind, bucket, days) == [kind |-> kind, bucket |-> bucket, days |-> days]

\* events_df['Time_Category'] = pd.cut(...): the column is set on the frame
\* of the caller
WithTimeCategory(E) ==
    [i \in 1..Len(E) |-> [E[i] EXCEPT !.Time_Category = Time_Category(E[i].Time)]]

\* a frame built from a new fetch has no such column
WithoutTimeCategory(E) == [i \in 1..Len(E) |-> [E[i] EXCEPT !.Time_Category = ""]]

\* with observed=True the groupby has a sum only for the categories that
\* occur in the Generation rows; idxmax is the first of them with the
\* largest sum, and without any the series is empty
TimeInsightObserved(E) ==
    LET sums == time_productivity(E)
        seen == {i \in 1..Len(TimeCategories) :
                    \E k \in 1..Len(E) : /\ E[k].Theme = "Generation"
                                          /\ Time_Category(E[k].Time) = TimeCategories[i]}
    IN  IF seen = {} THEN <<>>
        ELSE <<Insight("time_of_day",
                       TimeCategories[CHOOSE i \in seen :
                           \A j \in seen : sums[j] < sums[i] \/ (sums[j] = sums[i] /\ i <= j)],
                       0)>>

TimeInsight(E) ==
    <<Insight("time_of_day", TimeCategories[IdxMax(time_productivity(E))], 0)>>

BalanceInsights(E) ==
    LET total_time == MinutesOf(E)
        generation == MinutesOf(OfTheme(E, "Generation"))
        charging == MinutesOf(OfTheme(E, "Charging"))
    IN  IF total_time > 0
        THEN (IF 100 * generation > 60 * total_time
              THEN <<Insight("generation_share", "", 0)>> ELSE <<>>)
             \o (IF 100 * charging < 20 * total_time
                 THEN <<Insight("charging_share", "", 0)>> ELSE <<>>)
        ELSE <<>>

\* the index of daily_generation: the dates that have a Generation row, in
\* ascending order
GenerationDates(E) ==
    SelectSeq([date \in 1..LastDate(E) |-> date],
              LAMBDA date : \E i \in 1..Len(E) : E[i].Theme = "Generation" /\ E[i].Date = date)

daily_generation(E, date) ==
    MinutesOf(SelectSeq(OfTheme(E, "Generation"), LAMBDA e : e.Date = date))

\* Python's `value > 2` on hours: more than 120 minutes
Qualifies(minutes) == minutes > 120

\* for day, value in daily_generation.items(): ...
RECURSIVE StreakWalk(_, _, _)
StreakWalk(E, dates, streak_days) ==
    IF dates = <<>> THEN streak_days
    ELSE StreakWalk(E, Tail(dates),
                    IF Qualifies(daily_generation(E, Head(dates)))
                    THEN streak_days + 1 ELSE 0)

streak_days(E) == StreakWalk(E, GenerationDates(E), 0)

StreakInsight(E) ==
    IF streak_days(E) >= 3 THEN <<Insight("streak", "", streak_days(E))>> ELSE <<>>

\* attention_df['Theme'].nunique()
unique_themes(E) == Cardinality({E[i].Theme : i \in 1..Len(E)})

DiversityInsight(E) ==
    IF unique_themes(E) <= 2 THEN <<Insight("diversity", "", 0)>> ELSE <<>>

\* if not insights: insights.append(<default>)
AppendDefault(found) == Append(found, Insight("default", "", 0))

WithDefault(found) == IF found = <<>> THEN <<Insight("default", "", 0)>> ELSE found

\* the output of the first check under the groupby default of the build
TimeOfDayCheck(E, observed) == IF observed THEN TimeInsightObserved(E) ELSE TimeInsight(E)

identify_patterns(E, observed) ==
    WithDefault(TimeOfDayCheck(E, observed) \o BalanceInsights(E) \o StreakInsight(E)
                \o DiversityInsight(E))

----------------------------------------------------------------------------
(* Specification of the correlation and recommendation engine              *)

\* nothing stored, nothing categorized, nothing fetched
EngineIdle ==
    /\ store = EmptyBag
    /\ patterns = <<>>
    /\ runs = <<>>

CategorizerIdle ==
    /\ event = [summary |-> "", description |-> "", tags |-> ""]
    /\ labels = <<>>

InsightsIdle ==
    /\ events_df = <<>>
    /\ attention_df = <<>>
    /\ groupby_observed = FALSE
    /\ insights = <<>>

NormalizerIdle ==
    /\ raw_events = <<>>
    /\ event_data = <<>>
    /\ event_list = <<>>

EmptyTable == [date \in {} |-> 0]

NoResults ==
    [steps_completed |-> <<>>, steps_failed |-> <<>>,
     recommendations |-> <<>>, insights |-> <<>>, success |-> FALSE]

\* a new database, no run yet
PipelineIdle ==
    /\ time_entries = EmptyTable
    /\ emotion_metrics = EmptyTable
    /\ outcome_metrics = EmptyTable
    /\ pc = "idle"
    /\ journal_path = FALSE
    /\ results = NoResults
    /\ attempted = <<>>
    /\ pipeline_runs = 0
    /\ metric_runs = <<>>
    /\ error_log = {}

\* a new database: ensure_database creates the tables without rows
ConnectorIdle ==
    /\ activities = <<>>
    /\ time_entry_rows = <<>>
    /\ save_log = <<>>

Init ==
    /\ EngineIdle /\ CategorizerIdle /\ InsightsIdle /\ NormalizerIdle /\ PipelineIdle
    /\ ConnectorIdle

\* an import adds the time entries and the outcome row of one more date
ImportDay(row) ==
    /\ IF row.recent THEN RowCount(store, TRUE) < MaxWindowDays
                     ELSE RowCount(store, FALSE) < MaxHistoryDays
    /\ store' = store (+) SetToBag({row})
    /\ patterns' = <<>>
    /\ runs' = <<>>
    /\ UNCHANGED <<categorizerVars, insightVars, normalizerVars, pipelineVars, connectorVars>>

AnalyzePatterns ==
    /\ patterns' = <<analyze_patterns(store)>>
    /\ UNCHANGED <<store, runs, categorizerVars, insightVars, normalizerVars, pipelineVars, connectorVars>>

GenerateRecommendations ==
    /\ Len(runs) < MaxRuns
    /\ \E highOrder \in IterationOrders(DomainsOf(analyze_patterns(store).positive_correlations)),
          lowOrder \in IterationOrders(DomainsOf(analyze_patterns(store).negative_correlations)) :
            runs' = Append(runs, generate_recommendations(store, highOrder, lowOrder))
    /\ UNCHANGED <<store, patterns, categorizerVars, insightVars, normalizerVars, pipelineVars, connectorVars>>

Next ==
    \/ \E row \in HistoryDays \cup WindowDays : ImportDay(row)
    \/ AnalyzePatterns
    \/ GenerateRecommendations

Spec == Init /\ [][Next]_vars

----------------------------------------------------------------------------
(* Properties of the recommendation generator.  An import resets runs, so  *)
(* every list in runs was computed from the store of the same state.       *)

PositiveSet == DomainsOf(analyze_patterns(store).positive_correlations)

NegativeSet == DomainsOf(analyze_patterns(store).negative_correlations)

\* the window holds tracked time, so that the current percentages exist
HasAllocation == AllocatedDomains(store) # {} /\ total_minutes(store) # 0

RecsOf(run, d) == SelectSeq(run, LAMBDA r : r.domain = d)

\* the row of the positive table of section 4.5 for current = n/d, with the
\* suggested percentage s given in tenths
PositiveTableRow(r, n, d, s) ==
    IF n < 10 * d
    THEN r.action = "increase" /\ s /\ r.priority = (IF n < 5 * d THEN "high" ELSE "medium")
    ELSE IF n < 25 * d
    THEN r.action = "maintain" /\ s /\ r.priority = "medium"
    ELSE r.action = "optimize" /\ s /\ r.priority = "low"

\* C1 as stated: every domain of the positive set gets the recommendation of
\* its row of the table, suggested = min(c*1.5, c+15) below 10 percent and
\* suggested = c from 10 percent on, as exact values.
C1_PositiveTableExact ==
    \A k \in 1..Len(runs) : \A dom \in PositiveSet : HasAllocation =>
        LET n == PctNum(store, dom)
            d == PctDen(store)
            rs == RecsOf(runs[k], dom)
        IN  /\ Len(rs) >= 1
            /\ \A i \in 1..Len(rs) :
                 PositiveTableRow(rs[i], n, d,
                    IF n < 10 * d
                    THEN rs[i].suggested_percentage * 2 * d = 10 * Min(3 * n, 2 * n + 30 * d)
                    ELSE rs[i].suggested_percentage * d = 10 * n)

\* C1 amended: every domain of the positive set gets the recommendation of
\* its row of the table whenever the window holds tracked time, with the
\* suggested percentage rounded to one decimal: round(min(c*1.5, c+15), 1)
\* below 10 percent and round(c, 1) from 10 percent on.
C1_PositiveTableRounded ==
    \A k \in 1..Len(runs) : \A dom \in PositiveSet : HasAllocation =>
        LET n == PctNum(store, dom)
            d == PctDen(store)
            rs == RecsOf(runs[k], dom)
        IN  /\ Len(rs) >= 1
            /\ \A i \in 1..Len(rs) :
                 PositiveTableRow(rs[i], n, d,
                    IF n < 10 * d
                    THEN rs[i].suggested_percentage = RoundDiv(5 * Min(3 * n, 2 * n + 30 * d), d)
                    ELSE rs[i].suggested_percentage = RoundDiv(10 * n, d))

\* a run that holds an increase with a nonzero percentage next to a maintain
C1_Witness ==
    \E k \in 1..Len(runs) : \E a, b \in PositiveSet :
        /\ HasAllocation
        /\ PctNum(store, a) > 0
        /\ \E i, j \in 1..Len(runs[k]) :
            /\ runs[k][i].domain = a /\ runs[k][i].action = "increase"
            /\ runs[k][j].domain = b /\ runs[k][j].action = "maintain"

\* C2 as stated: every domain of the negative set that is not in the
\* positive set gets the recommendation of its row of the negative table
\* (decrease above 20 percent, review above 5 percent, nothing up to 5
\* percent, suggested values to one decimal), whatever the positive set
\* holds, the empty set included.
C2_NegativeTable ==
    \A k \in 1..Len(runs) : \A dom \in NegativeSet \ PositiveSet : HasAllocation =>
        LET n == PctNum(store, dom)
            d == PctDen(store)
            rs == RecsOf(runs[k], dom)
        IN  IF n > 20 * d
            THEN /\ Len(rs) >= 1
                 /\ \A i \in 1..Len(rs) :
                      /\ rs[i].action = "decrease"
                      /\ rs[i].suggested_percentage = RoundDiv(Max(7 * n, 10 * n - 150 * d), d)
                      /\ rs[i].priority = (IF n > 30 * d THEN "high" ELSE "medium")
            ELSE IF n > 5 * d
            THEN /\ Len(rs) >= 1
                 /\ \A i \in 1..Len(rs) :
                      /\ rs[i].action = "review"
                      /\ rs[i].suggested_percentage = RoundDiv(9 * n, d)
                      /\ rs[i].priority = "medium"
            ELSE Len(rs) = 0

\* the dates on which the domain has a time entry and the metric has a value
PairedDates(S, dom, metric) ==
    Len(SelectSeq(SeqOfBag(S), LAMBDA row : dom \in DOMAIN row.mins /\ row.om[metric] # Null))

ReportedPairs(pats) ==
    {pats.positive_correlations[i] : i \in 1..Len(pats.positive_correlations)}
    \cup {pats.negative_correlations[i] : i \in 1..Len(pats.negative_correlations)}

\* C3 as stated: a (domain, metric) pair with fewer than 5 dates on which
\* both the domain's minutes and the metric are present is in neither
\* positive_correlations nor negative_correlations.
C3_MinimumSample ==
    \A k \in 1..Len(patterns) : \A c \in ReportedPairs(patterns[k]) :
        PairedDates(store, c.domain, c.metric) >= 5

\* C5 as stated: two runs on the same store return the same list, in the
\* same order.
C5_SameOrder == \A i, j \in 1..Len(runs) : runs[i] = runs[j]

\* C6: in every returned list the priorities never go back from medium to
\* high or from low to medium or high.
C6_SortedByPriority ==
    \A k \in 1..Len(runs) : \A i, j \in 1..Len(runs[k]) :
        i < j => priority_order(runs[k][i].priority) <= priority_order(runs[k][j].priority)

\* a list in which a high decrease of the second loop was moved in front of
\* a medium or low recommendation of the first loop
C6_Witness ==
    \E k \in 1..Len(runs) : \E i, j \in 1..Len(runs[k]) :
        /\ runs[k][i].action = "decrease" /\ runs[k][i].priority = "high"
        /\ runs[k][j].action \in {"maintain", "optimize"}
        /\ i < j

\* the action the tables of section 4.5 give a reported percentage (tenths)
TableAction(isPositive, current) ==
    IF isPositive
    THEN (IF current < 100 THEN "increase" ELSE IF current < 250 THEN "maintain" ELSE "optimize")
    ELSE (IF current > 200 THEN "decrease" ELSE IF current > 50 THEN "review" ELSE "none")

\* C7 as stated: every recommendation has 0 <= suggested_percentage <= 100
\* and the action the tables give its current_percentage and its sign.
C7_RangeAndTable ==
    \A k \in 1..Len(runs) : \A i \in 1..Len(runs[k]) :
        LET r == runs[k][i]
        IN  /\ 0 <= r.suggested_percentage
            /\ r.suggested_percentage <= 1000
            /\ r.action = TableAction(r.domain \in PositiveSet, r.current_percentage)

\* C8: a domain in both sets has only recommendations of the positive
\* table, and no domain has more than one recommendation in a list.
C8_OnePerDomain ==
    \A k \in 1..Len(runs) :
        /\ \A dom \in PositiveSet \cap NegativeSet : \A i \in 1..Len(runs[k]) :
             runs[k][i].domain = dom => runs[k][i].action \in {"increase", "maintain", "optimize"}
        /\ \A i, j \in 1..Len(runs[k]) : runs[k][i].domain = runs[k][j].domain => i = j

\* a list with the recommendation of a domain that is in both sets and whose
\* percentage is above 5, where the negative table has a row for it
C8_Witness ==
    \E k \in 1..Len(runs) : \E dom \in PositiveSet \cap NegativeSet :
        /\ HasAllocation
        /\ PctNum(store, dom) > 5 * PctDen(store)
        /\ Len(RecsOf(runs[k], dom)) = 1

----------------------------------------------------------------------------
(* Specification of the categorizers                                       *)

Summaries ==
    {"Write blog post", "Team lunch", "Workshop", "Breakfast", "Gym", "Dentist",
     "Nap", "Read", "Standup", "Deep Work", "Call Mom", ""}

Descriptions ==
    {"", "with friends", "project review", "RUN", "bring laptop", "interesting",
     "10 km", "see agenda", "walk and talk"}

\* the tag text a record of the source may carry next to its title and its
\* description; no key of this kind is read
Tags == {"", "gym", "write"}

NewEvent(summary, description, tags) ==
    /\ event' = [summary |-> summary, description |-> description, tags |-> tags]
    /\ labels' = <<>>
    /\ UNCHANGED <<engineVars, insightVars, normalizerVars, pipelineVars, connectorVars>>

\* one call of each categorizer on the event
Categorize ==
    /\ Len(labels) < MaxCalls
    /\ labels' = Append(labels,
                    [Theme |-> categorize_event(event.summary, event.description)[1],
                     reason |-> categorize_event(event.summary, event.description)[2],
                     category |-> match_category(event)])
    /\ UNCHANGED <<event, engineVars, insightVars, normalizerVars, pipelineVars, connectorVars>>

NextCategorize ==
    \/ \E summary \in Summaries, description \in Descriptions, tags \in Tags :
          NewEvent(summary, description, tags)
    \/ Categorize

SpecCategorize == Init /\ [][NextCategorize]_vars

----------------------------------------------------------------------------
(* Specification of the insight generator                                  *)

EventKinds ==
    { [name |-> "Write report", description |-> "", time |-> 540, minutes |-> 130],
      [name |-> "Code review", description |-> "", time |-> 840, minutes |-> 60],
      [name |-> "Team lunch", description |-> "", time |-> 720, minutes |-> 60],
      [name |-> "Nap", description |-> "", time |-> 1200, minutes |-> 60],
      [name |-> "Standup", description |-> "", time |-> 600, minutes |-> 0] }

\* the calendar returns the events ordered by start time; the next event is
\* on the same date, on the next date or a date later
FetchEvent(kind, advance) ==
    /\ Len(events_df) < MaxEvents
    /\ LET date == IF events_df = <<>> THEN 1 ELSE LastDate(events_df) + advance
       IN  /\ date <= MaxDate
           /\ (events_df # <<>> /\ advance = 0) => events_df[Len(events_df)].Time <= kind.time
           /\ events_df' = Append(WithoutTimeCategory(events_df),
                              EventRow(date, kind.time, kind.name, kind.description, kind.minutes))
    /\ attention_df' = <<>>
    /\ groupby_observed' = FALSE
    /\ insights' = <<>>
    /\ UNCHANGED <<engineVars, categorizerVars, normalizerVars, pipelineVars, connectorVars>>

\* main() calls identify_patterns only when there are events
IdentifyPatterns ==
    /\ events_df # <<>>
    /\ attention_df' = <<calculate_attention(events_df)>>
    /\ \E observed \in BOOLEAN :
          /\ groupby_observed' = observed
          /\ insights' = <<identify_patterns(events_df, observed)>>
    /\ events_df' = WithTimeCategory(events_df)
    /\ UNCHANGED <<engineVars, categorizerVars, normalizerVars, pipelineVars, connectorVars>>

NextInsights ==
    \/ \E kind \in EventKinds, advance \in 0..2 : FetchEvent(kind, advance)
    \/ IdentifyPatterns

SpecInsights == Init /\ [][NextInsights]_vars

----------------------------------------------------------------------------
(* The record normalizers: GoogleCalendarConnector._process_events and     *)
(* get_calendar_events.  A raw event holds a start and an end dict; each   *)
(* has the key 'dateTime', the key 'date' or neither.  The string of a     *)
(* key is an ISO timestamp with a UTC offset ("aware"), one without        *)
(* ("naive"), or an impossible timestamp such as '2024-02-30T10:00:00'     *)
(* ("invalid"); a valid one stands for the instant `at`, in minutes from   *)
(* the first midnight of the period.                                       *)

RawTime(key, zone, at) == [key |-> key, zone |-> zone, at |-> at]

\* is_all_day = 'date' in start_info and 'date' in end_info
is_all_day(ev) == ev.start.key = "date" /\ ev.end.key = "date"

\* the string _process_events hands to fromisoformat for one side: the
\* 'date' string of an all-day event, else the 'dateTime' string, '' when
\* the key is missing; the result names the exception or is "ok"
ParseSide(ev, side) ==
    IF is_all_day(ev) THEN "ok"
    ELSE IF side.key # "dateTime" THEN "ValueError"
    ELSE IF side.zone = "invalid" THEN "ValueError"
    ELSE "ok"

\* end_dt - start_dt raises TypeError for an offset-aware and an
\* offset-naive datetime
CannotSubtractNever(start, end) == FALSE

CannotSubtract(start, end) == start.zone # end.zone

\* what the try block of the loop body ends with
ProcessOutcome(ev) ==
    IF ParseSide(ev, ev.start) # "ok" THEN ParseSide(ev, ev.start)
    ELSE IF ParseSide(ev, ev.end) # "ok" THEN ParseSide(ev, ev.end)
    ELSE IF CannotSubtract(ev.start, ev.end) THEN "TypeError"
    ELSE "ok"

event_record(ev) ==
    [event_id |-> ev.id,
     summary |-> ev.summary,
     start_time |-> ev.start.at,
     end_time |-> ev.end.at,
     duration_minutes |-> ev.end.at - ev.start.at,
     is_all_day |-> is_all_day(ev)]

\* the loop: an exception in the body is logged and the loop continues
RECURSIVE _process_events(_)
_process_events(events) ==
    IF events = <<>> THEN <<>>
    ELSE (IF ProcessOutcome(Head(events)) = "ok" THEN <<event_record(Head(events))>> ELSE <<>>)
         \o _process_events(Tail(events))

\* start = event['start'].get('dateTime', event['start'].get('date')): None
\* without either key, and then `'T' in start` raises outside the try block
ReadsNone(ev) == ev.start.key = "none" \/ (ev.start.key = "dateTime" /\ ev.end.key = "none")

\* if not ('T' in start and 'T' in end): continue -- a 'date' string has no T
HasNoT(ev) == ev.start.key = "date" \/ ev.end.key = "date"

\* what the try block of get_calendar_events ends with
FetchOutcome(ev) ==
    IF ev.start.zone = "invalid" \/ ev.end.zone = "invalid" THEN "ValueError"
    ELSE IF CannotSubtract(ev.start, ev.end) THEN "TypeError"
    ELSE "ok"

\* the row appended to event_list; the durations stay in minutes here
event_row(ev, counter) ==
    [EventID |-> counter,
     Date |-> (ev.start.at \div 1440) + 1,
     Time |-> ev.start.at % 1440,
     EventName |-> ev.summary,
     Minutes |-> ev.end.at - ev.start.at,
     StartTime |-> ev.start.at,
     EndTime |-> ev.end.at]

RECURSIVE FetchLoop(_, _)
FetchLoop(events, counter) ==
    IF events = <<>> THEN <<>>
    ELSE IF HasNoT(Head(events)) THEN FetchLoop(Tail(events), counter)
    ELSE IF FetchOutcome(Head(events)) # "ok" THEN FetchLoop(Tail(events), counter)
    ELSE <<event_row(Head(events), counter)>> \o FetchLoop(Tail(events), counter + 1)

\* the events before the first one whose start or end reads as None are
\* processed, then the TypeError leaves the function
get_calendar_events(events) ==
    IF \E i \in 1..Len(events) : ReadsNone(events[i])
    THEN [raised |-> TRUE, rows |-> <<>>]
    ELSE [raised |-> FALSE, rows |-> FetchLoop(events, 1)]

\* the start dicts and the end dicts of the raw events
RawStarts ==
    { RawTime("dateTime", "aware", 600),
      RawTime("dateTime", "naive", 600),
      RawTime("dateTime", "invalid", 0),
      RawTime("date", "naive", 0),
      RawTime("none", "invalid", 0) }

RawEnds ==
    { RawTime("dateTime", "aware", 660),
      RawTime("dateTime", "aware", 600),
      RawTime("dateTime", "aware", 570),
      RawTime("dateTime", "naive", 660),
      RawTime("dateTime", "invalid", 0),
      RawTime("date", "naive", 1440),
      RawTime("none", "invalid", 0) }

\* the calendar API returns one more item
ReceiveEvent(start, end) ==
    /\ Len(raw_events) < MaxBatch
    /\ raw_events' = Append(raw_events,
                         [id |-> Len(raw_events) + 1, summary |-> "Write report",
                          start |-> start, end |-> end])
    /\ event_data' = <<>>
    /\ event_list' = <<>>
    /\ UNCHANGED <<engineVars, categorizerVars, insightVars, pipelineVars, connectorVars>>

\* fetch_events hands a non-empty item list to _process_events
ProcessEvents ==
    /\ raw_events # <<>>
    /\ event_data' = <<_process_events(raw_events)>>
    /\ UNCHANGED <<raw_events, event_list, engineVars, categorizerVars, insightVars, pipelineVars, connectorVars>>

GetCalendarEvents ==
    /\ raw_events # <<>>
    /\ event_list' = <<get_calendar_events(raw_events)>>
    /\ UNCHANGED <<raw_events, event_data, engineVars, categorizerVars, insightVars, pipelineVars, connectorVars>>

NextNormalize ==
    \/ \E start \in RawStarts, end \in RawEnds : ReceiveEvent(start, end)
    \/ ProcessEvents
    \/ GetCalendarEvents

SpecNormalize == Init /\ [][NextNormalize]_vars

----------------------------------------------------------------------------
(* DataPipeline.run_full_pipeline on the database.  A date is a number;    *)
(* the dates from WindowStart on are within 30 days of now.  A sentiment   *)
(* polarity in [-1, 1] is an integer counting hundredths.                  *)

WindowStart == 6

SetMin(S) == CHOOSE x \in S : \A y \in S : x <= y

SetMax(S) == CHOOSE x \in S : \A y \in S : x >= y

\* an upsert of some rows, keyed by date
Upsert(table, rows) ==
    [date \in DOMAIN table \cup DOMAIN rows |->
        IF date \in DOMAIN rows THEN rows[date] ELSE table[date]]

\* int((sentiment + 1) * 5): the fraction is cut off
HappinessScore(sentiment) == (sentiment + 100) \div 20

\* COALESCE(?, column)
Coalesce(new, old) == IF new # Null THEN new ELSE old

\* peace_score = happiness if happiness else None: None and 0 give None
peace_score(happiness) ==
    IF happiness # Null /\ happiness # 0 THEN happiness ELSE Null

\* the column of the existing row in well_being = COALESCE(?, well_being)
StoredFreedom(existing) == existing.freedom

StoredWellBeing(existing) == existing.well_being

\* the outcome_metrics row calculate_daily_metrics leaves for one date
DailyMetricsRow(date, emotions, outcomes) ==
    LET happiness == IF date \in DOMAIN emotions
                     THEN HappinessScore(emotions[date]) ELSE Null
        existing == IF date \in DOMAIN outcomes THEN outcomes[date] ELSE NoOutcome
        peace == peace_score(happiness)
        freedom_score == 5
    IN  IF date \in DOMAIN outcomes
        THEN Outcome(Coalesce(happiness, existing.happiness),
                     Coalesce(peace, existing.peace),
                     Coalesce(freedom_score, existing.freedom),
                     Coalesce(happiness, StoredWellBeing(existing)))
        ELSE Outcome(happiness, peace, freedom_score, happiness)

\* all_dates: every date from the first to the last date with a time entry
all_dates(entries) == SetMin(DOMAIN entries)..SetMax(DOMAIN entries)

\* the outcome_metrics table after calculate_daily_metrics returned True
calculate_daily_metrics(entries, emotions, outcomes) ==
    Upsert(outcomes,
           [date \in all_dates(entries) |-> DailyMetricsRow(date, emotions, outcomes)])

\* the outcome_metrics table after DayOneParser.save_to_database: every
\* emotion_metrics row sets the happiness of its date
JournalOutcomes(emotions, outcomes) ==
    Upsert(outcomes,
           [date \in DOMAIN emotions |->
               IF date \in DOMAIN outcomes
               THEN [outcomes[date] EXCEPT !.happiness = HappinessScore(emotions[date])]
               ELSE Outcome(HappinessScore(emotions[date]), Null, Null, Null)])

\* the day rows the queries of analyze_patterns and generate_recommendations
\* see in the database
RECURSIVE StoreOf(_, _, _)
StoreOf(entries, outcomes, dates) ==
    IF dates = {} THEN EmptyBag
    ELSE LET date == CHOOSE d \in dates : TRUE
         IN  SetToBag({DayRow(entries[date],
                              IF date \in DOMAIN outcomes THEN outcomes[date] ELSE NoOutcome,
                              date >= WindowStart)})
             (+) StoreOf(entries, outcomes, dates \ {date})

Database == StoreOf(time_entries, outcome_metrics, DOMAIN time_entries)

\* what the calendar import can save: one event per date
CalendarBatches ==
    { (1 :> ("Generation" :> 60) @@ 2 :> ("Generation" :> 60) @@ 3 :> ("Connection" :> 60)
         @@ 4 :> ("Connection" :> 60) @@ 5 :> ("Connection" :> 60)
         @@ 6 :> ("Generation" :> 20 @@ "Connection" :> 40)),
      (1 :> ("Generation" :> 60) @@ 4 :> ("Connection" :> 60)),
      (6 :> ("Other" :> 0)) }

\* what the journal import can save: the average polarity of each date
JournalBatches ==
    { (1 :> 50 @@ 2 :> 50 @@ 3 :> -45 @@ 4 :> -45 @@ 5 :> 16),
      (2 :> -100 @@ 3 :> -90),
      (1 :> 100 @@ 7 :> 0) }

\* results['steps_completed'].append(step) / results['steps_failed'].append(step)
RecordStepAlways(res, step, ok) ==
    [res EXCEPT !.steps_completed = Append(@, step),
                !.steps_failed = IF ok THEN @ ELSE Append(@, step)]

RecordStep(res, step, ok) ==
    IF ok THEN [res EXCEPT !.steps_completed = Append(@, step)]
    ELSE [res EXCEPT !.steps_failed = Append(@, step)]

\* success only when no step failed
success_without_failure(res) == res.steps_failed = <<>>

\* results['success'] = 'google_calendar' in results['steps_completed']
success(res) ==
    \E i \in 1..Len(res.steps_completed) : res.steps_completed[i] = "google_calendar"

\* except Exception as e: logger.error(...) of the function of a step
ErrorLogged(log, step, reachable) == IF reachable THEN log ELSE log \cup {step}

\* the inputs of steps 3 and 4 changed: earlier runs are not comparable
MetricRunsAfter(entries, emotions) ==
    IF entries = time_entries /\ emotions = emotion_metrics THEN metric_runs ELSE <<>>

StartPipeline(withJournal) ==
    /\ pc \in {"idle", "done"}
    /\ pipeline_runs < MaxPipelineRuns
    /\ pipeline_runs' = pipeline_runs + 1
    /\ journal_path' = withJournal
    /\ results' = NoResults
    /\ attempted' = <<>>
    /\ error_log' = {}
    /\ pc' = "google_calendar"
    /\ UNCHANGED <<databaseVars, metric_runs, engineVars, categorizerVars, insightVars,
                   normalizerVars, connectorVars>>

\* Step 1: run_google_calendar_import saves a batch, or returns False
GoogleCalendarStep ==
    /\ pc = "google_calendar"
    /\ \/ \E batch \in CalendarBatches :
            /\ time_entries' = Upsert(time_entries, batch)
            /\ metric_runs' = MetricRunsAfter(Upsert(time_entries, batch), emotion_metrics)
            /\ results' = RecordStep(results, "google_calendar", TRUE)
       \/ /\ results' = RecordStep(results, "google_calendar", FALSE)
          /\ UNCHANGED <<time_entries, metric_runs>>
    /\ attempted' = Append(attempted, "google_calendar")
    /\ pc' = IF journal_path THEN "dayone_journal" ELSE "daily_metrics"
    /\ UNCHANGED <<emotion_metrics, outcome_metrics, journal_path, pipeline_runs, error_log,
                   engineVars, categorizerVars, insightVars, normalizerVars, connectorVars>>

\* Step 2: run_dayone_journal_import saves a batch, or returns False
DayoneJournalStep ==
    /\ pc = "dayone_journal"
    /\ \/ \E batch \in JournalBatches :
            /\ emotion_metrics' = Upsert(emotion_metrics, batch)
            /\ outcome_metrics' = JournalOutcomes(Upsert(emotion_metrics, batch), outcome_metrics)
            /\ metric_runs' = MetricRunsAfter(time_entries, Upsert(emotion_metrics, batch))
            /\ results' = RecordStep(results, "dayone_journal", TRUE)
       \/ /\ results' = RecordStep(results, "dayone_journal", FALSE)
          /\ UNCHANGED <<emotion_metrics, outcome_metrics, metric_runs>>
    /\ attempted' = Append(attempted, "dayone_journal")
    /\ pc' = "daily_metrics"
    /\ UNCHANGED <<time_entries, journal_path, pipeline_runs, error_log,
                   engineVars, categorizerVars, insightVars, normalizerVars, connectorVars>>

\* Step 3: calculate_daily_metrics returns False without time entries or
\* when the database cannot be reached
DailyMetricsStep ==
    /\ pc = "daily_metrics"
    /\ \E reachable \in BOOLEAN :
          LET ok == reachable /\ DOMAIN time_entries # {}
          IN  /\ outcome_metrics' =
                    IF ok THEN calculate_daily_metrics(time_entries, emotion_metrics,
                                                       outcome_metrics)
                    ELSE outcome_metrics
              /\ results' = RecordStep(results, "daily_metrics", ok)
              /\ error_log' = ErrorLogged(error_log, "daily_metrics", reachable)
    /\ attempted' = Append(attempted, "daily_metrics")
    /\ pc' = "pattern_analysis"
    /\ UNCHANGED <<time_entries, emotion_metrics, journal_path, pipeline_runs, metric_runs,
                   engineVars, categorizerVars, insightVars, normalizerVars, connectorVars>>

\* Step 4: analyze_patterns returns {} when the database cannot be reached
PatternAnalysisStep ==
    /\ pc = "pattern_analysis"
    /\ \E reachable \in BOOLEAN :
          LET found == IF reachable THEN analyze_patterns(Database) ELSE NoPatterns
          IN  /\ results' = [RecordStep(results, "pattern_analysis", ~found.empty)
                               EXCEPT !.insights = IF found.empty THEN <<>> ELSE <<found>>]
              /\ metric_runs' =
                    IF reachable /\ \E i \in 1..Len(results.steps_completed) :
                                        results.steps_completed[i] = "daily_metrics"
                    THEN Append(metric_runs, [outcome_metrics |-> outcome_metrics,
                                              patterns |-> found])
                    ELSE metric_runs
              /\ error_log' = ErrorLogged(error_log, "pattern_analysis", reachable)
    /\ attempted' = Append(attempted, "pattern_analysis")
    /\ pc' = "recommendations"
    /\ UNCHANGED <<databaseVars, journal_path, pipeline_runs,
                   engineVars, categorizerVars, insightVars, normalizerVars, connectorVars>>

\* Step 5: generate_recommendations returns [] when the database cannot be
\* reached; then success is set and the results are returned
RecommendationsStep ==
    /\ pc = "recommendations"
    /\ \E reachable \in BOOLEAN,
          highOrder \in IterationOrders(DomainsOf(analyze_patterns(Database).positive_correlations)),
          lowOrder \in IterationOrders(DomainsOf(analyze_patterns(Database).negative_correlations)) :
          LET recommendations ==
                  IF reachable THEN generate_recommendations(Database, highOrder, lowOrder)
                  ELSE <<>>
              recorded == RecordStep(results, "recommendations", recommendations # <<>>)
          IN  /\ results' = [recorded EXCEPT
                               !.recommendations = recommendations,
                               !.success = success(recorded)]
              /\ error_log' = ErrorLogged(error_log, "recommendations", reachable)
    /\ attempted' = Append(attempted, "recommendations")
    /\ pc' = "done"
    /\ UNCHANGED <<databaseVars, journal_path, pipeline_runs, metric_runs,
                   engineVars, categorizerVars, insightVars, normalizerVars, connectorVars>>

NextPipeline ==
    \/ \E withJournal \in BOOLEAN : StartPipeline(withJournal)
    \/ GoogleCalendarStep
    \/ DayoneJournalStep
    \/ DailyMetricsStep
    \/ PatternAnalysisStep
    \/ RecommendationsStep

SpecPipeline == Init /\ [][NextPipeline]_vars

----------------------------------------------------------------------------
(* GoogleCalendarConnector.save_to_database on the rows of the database    *)

\* the value SQLite gives an INTEGER PRIMARY KEY: one above the largest
NextKey(keys) == IF keys = {} THEN 1 ELSE SetMax(keys) + 1

\* events_df['category'].unique(): the values in order of first appearance
RECURSIVE Unique(_)
Unique(list) ==
    IF list = <<>> THEN <<>>
    ELSE LET front == Unique(SubSeq(list, 1, Len(list) - 1))
             last == list[Len(list)]
         IN  IF \E i \in 1..Len(front) : front[i] = last THEN front
             ELSE Append(front, last)

\* the loop over the categories: a category without an activity of its name
\* and its domain gets one
RECURSIVE EnsureActivities(_, _)
EnsureActivities(acts, categories) ==
    IF categories = <<>> THEN acts
    ELSE LET category == Head(categories)
             exists == \E i \in 1..Len(acts) :
                           acts[i].name = category /\ acts[i].domain = category
             inserted == [activity_id |-> NextKey({acts[i].activity_id : i \in 1..Len(acts)}),
                          name |-> category, domain |-> category]
         IN  EnsureActivities(IF exists THEN acts ELSE Append(acts, inserted),
                              Tail(categories))

\* activity_map = {name: id for id, name in cursor.fetchall()}, then
\* activity_map.get(category): the last row of a name wins, None without one
activity_map(acts, category) ==
    LET named == SelectSeq(acts, LAMBDA a : a.name = category)
    IN  IF named = <<>> THEN Null ELSE named[Len(named)].activity_id

\* no row is ever found for the event
existing_never(rows, event_id) == FALSE

\* SELECT entry_id FROM time_entries WHERE source = ?, then `if existing`
existing(rows, event_id) == \E i \in 1..Len(rows) : rows[i].source = event_id

\* the body of the loop over the events: UPDATE ... WHERE source = ? or INSERT
SaveEvent(rows, acts, ev) ==
    LET activity_id == activity_map(acts, ev.category)
        entry(entry_id) ==
            [entry_id |-> entry_id, activity_id |-> activity_id,
             start_time |-> ev.start_time, duration |-> ev.duration_minutes,
             source |-> ev.event_id]
    IN  IF activity_id = Null \/ activity_id = 0 THEN rows
        ELSE IF existing(rows, ev.event_id)
        THEN [i \in 1..Len(rows) |->
                 IF rows[i].source = ev.event_id THEN entry(rows[i].entry_id) ELSE rows[i]]
        ELSE Append(rows, entry(NextKey({rows[i].entry_id : i \in 1..Len(rows)})))

RECURSIVE SaveEvents(_, _, _)
SaveEvents(rows, acts, events) ==
    IF events = <<>> THEN rows
    ELSE SaveEvents(SaveEvent(rows, acts, Head(events)), acts, Tail(events))

\* the two tables after a save_to_database that returned True
save_to_database(events, acts, rows) ==
    LET categories == Unique([i \in 1..Len(events) |-> events[i].category])
        ensured == EnsureActivities(acts, categories)
    IN  [activities |-> ensured, time_entries |-> SaveEvents(rows, ensured, events)]

\* the categorized events a frame can hold: the id the calendar gave the
\* event, its category, its start date and its minutes
EventValues ==
    { [category |-> "Generation", start_time |-> 1, duration_minutes |-> 30],
      [category |-> "Other", start_time |-> 1, duration_minutes |-> 60],
      [category |-> "Generation", start_time |-> 2, duration_minutes |-> 60],
      [category |-> "Other", start_time |-> 2, duration_minutes |-> 30] }

CategorizedEvents ==
    {[event_id |-> id] @@ values : id \in {"e1", "e2"}, values \in EventValues}

\* the frames with at least one event
EventFrames ==
    UNION {[1..n -> CategorizedEvents] : n \in 1..MaxBatchEvents}

SaveToDatabase(events_frame) ==
    /\ Len(save_log) < MaxSaves
    /\ LET saved == save_to_database(events_frame, activities, time_entry_rows)
       IN  /\ activities' = saved.activities
           /\ time_entry_rows' = saved.time_entries
           /\ save_log' = Append(save_log, [events |-> events_frame,
                                            entries |-> Len(saved.time_entries),
                                            activities |-> Len(saved.activities)])
    /\ UNCHANGED <<engineVars, categorizerVars, insightVars, normalizerVars, pipelineVars>>

NextSave == \E events_frame \in EventFrames : SaveToDatabase(events_frame)

SpecSave == Init /\ [][NextSave]_vars

----------------------------------------------------------------------------
(* Properties of the streak walk                                           *)

\* the walk of section 4.3 over every calendar date from the first to the
\* last date of the period: a date without Generation rows has 0 minutes
RECURSIVE CalendarStreak(_, _, _)
CalendarStreak(E, date, streak) ==
    IF date > LastDate(E) THEN streak
    ELSE CalendarStreak(E, date + 1,
            IF daily_generation(E, date) > 120 THEN streak + 1 ELSE 0)

StreakInsights(list) == SelectSeq(list, LAMBDA x : x.kind = "streak")

\* C4 as stated: the streak is counted over consecutive calendar dates, a
\* date without Generation records resets it to zero; the streak insight
\* reports that count, and is there only when that count is at least 3.
C4_StreakResetsOnGap ==
    \A k \in 1..Len(insights) :
        LET streak == CalendarStreak(events_df, 1, 0)
        IN  StreakInsights(insights[k]) =
                IF streak >= 3 THEN <<Insight("streak", "", streak)>> ELSE <<>>

----------------------------------------------------------------------------
(* Properties of the daily allocation                                      *)

RowsOn(frame, date) == SelectSeq(frame, LAMBDA row : row.Date = date)

\* the sum of the finite percentages of some rows, in thousandths of a percent
PctSum(rows) == SumSeq([i \in 1..Len(rows) |-> rows[i].ThemePct.value])

AllFinite(rows) == \A i \in 1..Len(rows) : rows[i].ThemePct.kind = "finite"

\* C11: for every date with at least one record and a nonzero total of
\* minutes, the percentages of the rows of that date sum to 100 within 0.01.
C11_PercentagesSumTo100 ==
    \A k \in 1..Len(attention_df), date \in 1..MaxDate :
        (OnDate(events_df, date) # <<>> /\ MinutesOf(OnDate(events_df, date)) # 0)
            => /\ RowsOn(attention_df[k], date) # <<>>
               /\ AllFinite(RowsOn(attention_df[k], date))
               /\ Abs(PctSum(RowsOn(attention_df[k], date)) - 100000) <= 10

\* a date with two themes whose shares are not whole percentages, on the
\* second date of the period
C11_Witness ==
    /\ attention_df # <<>>
    /\ \E date \in 2..MaxDate :
         /\ Len(RowsOn(attention_df[1], date)) >= 2
         /\ AllFinite(RowsOn(attention_df[1], date))
         /\ \E i \in 1..Len(RowsOn(attention_df[1], date)) :
                RowsOn(attention_df[1], date)[i].ThemePct.value % 1000 # 0

\* C12 as stated: a date whose records total zero minutes has no row in the
\* aggregation output, and no row of the output has an undefined percentage.
C12_ZeroDayHasNoRow ==
    \A k \in 1..Len(attention_df) :
        /\ \A date \in 1..MaxDate :
              (OnDate(events_df, date) # <<>> /\ MinutesOf(OnDate(events_df, date)) = 0)
                  => RowsOn(attention_df[k], date) = <<>>
        /\ \A i \in 1..Len(attention_df[k]) : attention_df[k][i].ThemePct.kind # "nan"

----------------------------------------------------------------------------
(* Properties of the categorizers                                          *)

\* the fixed priority order of section 4.2
FixedOrder == <<"Generation", "Charging", "Growth", "Connection", "Vitality">>

TermsOf(table, domain) ==
    UNION { {table[i].terms[j] : j \in 1..Len(table[i].terms)} :
                i \in {i \in 1..Len(table) : table[i].category = domain} }

\* the positions in the fixed order of the domains with a keyword in the text
MatchingDomains(table, text) ==
    {i \in 1..Len(FixedOrder) : \E term \in TermsOf(table, FixedOrder[i]) : Contains(text, term)}

FirstInFixedOrder(table, text) ==
    IF MatchingDomains(table, text) = {} THEN "Other"
    ELSE FixedOrder[CHOOSE i \in MatchingDomains(table, text) :
                        \A j \in MatchingDomains(table, text) : i <= j]

\* C9: each categorizer returns the first domain of the fixed order that has
\* a keyword in the lowercased text, and Other exactly when none has one;
\* 'Write blog post' with an empty description is Generation.
C9_FirstDomainWins ==
    \A k \in 1..Len(labels) :
        LET text == Lower(event.summary \o " " \o event.description)
        IN  /\ labels[k].Theme = FirstInFixedOrder(keywords, text)
            /\ labels[k].category = FirstInFixedOrder(category_keywords, text)
            /\ (labels[k].Theme = "Other") = (MatchingDomains(keywords, text) = {})
            /\ (labels[k].category = "Other") = (MatchingDomains(category_keywords, text) = {})
            /\ (event.summary = "Write blog post" /\ event.description = "")
                   => (labels[k].Theme = "Generation" /\ labels[k].category = "Generation")

\* an event whose text has keywords of at least two domains in both tables
C9_Witness ==
    /\ labels # <<>>
    /\ Cardinality(MatchingDomains(keywords,
                       Lower(event.summary \o " " \o event.description))) >= 2
    /\ Cardinality(MatchingDomains(category_keywords,
                       Lower(event.summary \o " " \o event.description))) >= 2

DomainLabels == {"Generation", "Charging", "Growth", "Connection", "Vitality", "Other"}

----------------------------------------------------------------------------
(* Properties of the record normalizers                                    *)

\* C13 as stated: every record the normalizers emit has end >= start and a
\* duration of at least zero minutes.
C13_DurationNonNegative ==
    /\ \A k \in 1..Len(event_data) : \A i \in 1..Len(event_data[k]) :
          /\ event_data[k][i].end_time >= event_data[k][i].start_time
          /\ event_data[k][i].duration_minutes >= 0
    /\ \A k \in 1..Len(event_list) : \A i \in 1..Len(event_list[k].rows) :
          /\ event_list[k].rows[i].EndTime >= event_list[k].rows[i].StartTime
          /\ event_list[k].rows[i].Minutes >= 0

\* the string the loop body reads for each side is an ISO timestamp
StartAndEndParse(ev) == ParseSide(ev, ev.start) = "ok" /\ ParseSide(ev, ev.end) = "ok"

EventIds(list) == [i \in 1..Len(list) |-> list[i].event_id]

IdsOf(events) == [i \in 1..Len(events) |-> events[i].id]

SameOffsetKind(ev) == ev.start.zone = ev.end.zone

----------------------------------------------------------------------------
(* Properties of run_full_pipeline                                         *)

StepOrder(withJournal) ==
    IF withJournal
    THEN <<"google_calendar", "dayone_journal", "daily_metrics", "pattern_analysis",
           "recommendations">>
    ELSE <<"google_calendar", "daily_metrics", "pattern_analysis", "recommendations">>

Members(list) == {list[i] : i \in 1..Len(list)}

\* C15: the steps are attempted in the fixed order, dayone_journal only
\* with a journal_path; whatever failed, a finished run has attempted them
\* all; every attempted step is once in exactly one of steps_completed and
\* steps_failed, and the two lists share no step.
C15_StepsInOrderAndRecordedOnce ==
    /\ Len(attempted) <= Len(StepOrder(journal_path))
    /\ attempted = SubSeq(StepOrder(journal_path), 1, Len(attempted))
    /\ pc = "done" => attempted = StepOrder(journal_path)
    /\ Members(results.steps_completed) \cup Members(results.steps_failed) = Members(attempted)
    /\ Members(results.steps_completed) \cap Members(results.steps_failed) = {}
    /\ Len(results.steps_completed) + Len(results.steps_failed) = Len(attempted)

\* a finished run with a journal_path whose journal import failed and whose
\* later steps were attempted, one of them completed
C15_Witness ==
    /\ pc = "done"
    /\ journal_path
    /\ "dayone_journal" \in Members(results.steps_failed)
    /\ "daily_metrics" \in Members(results.steps_completed)
    /\ "recommendations" \in Members(results.steps_failed)

----------------------------------------------------------------------------
(* Properties of the degenerate inputs of the engine                       *)

\* no day joins time entries with a happiness value
NoJoinedRows == DfRows(store) = <<>>

\* C16: without joined rows analyze_patterns returns {}; without joined
\* rows, without a positive and a negative correlation, without recent
\* time entries or with zero total tracked minutes generate_recommendations
\* returns []; both always return a value.
C16_DegenerateInputsGiveEmpty ==
    /\ \A k \in 1..Len(patterns) :
          NoJoinedRows =>
              /\ patterns[k].empty
              /\ patterns[k].positive_correlations = <<>>
              /\ patterns[k].negative_correlations = <<>>
    /\ \A k \in 1..Len(runs) :
          (\/ NoJoinedRows
           \/ (PositiveSet = {} /\ NegativeSet = {})
           \/ AllocatedDomains(store) = {}
           \/ total_minutes(store) = 0)
              => runs[k] = <<>>

\* both functions were called on a store without joined rows, which has a
\* recent day of zero tracked minutes
C16_Witness ==
    /\ patterns # <<>>
    /\ runs # <<>>
    /\ store # EmptyBag
    /\ NoJoinedRows
    /\ AllocatedDomains(store) # {}
    /\ total_minutes(store) = 0

\* a store with a positive correlation and a recent day of zero minutes
C16_ZeroMinutesReached ==
    /\ runs # <<>>
    /\ PositiveSet # {}
    /\ AllocatedDomains(store) # {}
    /\ total_minutes(store) = 0

----------------------------------------------------------------------------
(* Properties of the outcome-metric rows                                   *)

\* round((p + 1) * 5) for p in hundredths
RoundedHappiness(sentiment) == RoundDiv(sentiment + 100, 20)

\* C17 as stated: the happiness written for a date with sentiment polarity
\* p is round((p + 1) * 5), rounded to the nearest integer.
C17_HappinessIsRounded ==
    \A date \in DOMAIN outcome_metrics \cap DOMAIN emotion_metrics :
        outcome_metrics[date].happiness = RoundedHappiness(emotion_metrics[date])

\* C18 as stated: every happiness, peace, freedom and well_being value of
\* an outcome-metric row is an integer in 1..10 or absent.
C18_MetricsInRange ==
    \A date \in DOMAIN outcome_metrics : \A i \in 1..Len(Metrics) :
        \/ outcome_metrics[date][Metrics[i]] = Null
        \/ outcome_metrics[date][Metrics[i]] \in 1..10

\* C19: every run of calculate_daily_metrics followed by analyze_patterns
\* on the same time entries and emotion metrics leaves the same outcome
\* rows and returns the same correlation result.
C19_SecondRunChangesNothing ==
    \A i, j \in 1..Len(metric_runs) : metric_runs[i] = metric_runs[j]

\* two runs on inputs that give correlations, with an outcome row that the
\* first run inserted for a date without sentiment
C19_Witness ==
    /\ Len(metric_runs) = 2
    /\ ~metric_runs[2].patterns.empty
    /\ \E date \in DOMAIN outcome_metrics : date \notin DOMAIN emotion_metrics

\* the cut-off value, which the rows hold
C17_HappinessIsCutOff ==
    \A date \in DOMAIN outcome_metrics \cap DOMAIN emotion_metrics :
        outcome_metrics[date].happiness = HappinessScore(emotion_metrics[date])

----------------------------------------------------------------------------
(* Properties of the insight list                                          *)

\* the share of a theme in the period is above (below) a percentage; a
\* share exists when the total is not zero
ShareAbove(E, theme, pct) ==
    LET total == MinutesOf(E)
        amount == MinutesOf(OfTheme(E, theme))
    IN  IF total > 0 THEN 100 * amount > pct * total
        ELSE IF total < 0 THEN 100 * amount < pct * total
        ELSE FALSE

ShareBelow(E, theme, pct) ==
    LET total == MinutesOf(E)
        amount == MinutesOf(OfTheme(E, theme))
    IN  IF total > 0 THEN 100 * amount < pct * total
        ELSE IF total < 0 THEN 100 * amount > pct * total
        ELSE FALSE

\* the insights whose condition holds, in the fixed order; the streak is
\* the current streak over consecutive calendar dates
TriggeredInsights(E) ==
    LET streak == CalendarStreak(E, 1, 0)
        found ==
            TimeOfDayCheck(E, groupby_observed)
            \o (IF ShareAbove(E, "Generation", 60)
                THEN <<Insight("generation_share", "", 0)>> ELSE <<>>)
            \o (IF ShareBelow(E, "Charging", 20)
                THEN <<Insight("charging_share", "", 0)>> ELSE <<>>)
            \o (IF streak >= 3 THEN <<Insight("streak", "", streak)>> ELSE <<>>)
            \o (IF Cardinality({E[i].Theme : i \in 1..Len(E)}) <= 2
                THEN <<Insight("diversity", "", 0)>> ELSE <<>>)
    IN  IF found = <<>> THEN <<Insight("default", "", 0)>> ELSE found

\* C20 as stated: the list holds exactly the insights whose condition
\* holds, once each, in the order time of day, Generation share above 60%,
\* Charging share below 20%, current Generation streak of at least 3,
\* at most 2 distinct domains.
C20_ExactlyTheTriggeredInsights ==
    \A k \in 1..Len(insights) : insights[k] = TriggeredInsights(events_df)

\* the same with the streak as the code counts it: the order and the other
\* four conditions are as stated
C20_TriggeredExceptStreak ==
    \A k \in 1..Len(insights) :
        SelectSeq(insights[k], LAMBDA x : x.kind # "streak")
            = SelectSeq(TriggeredInsights(events_df), LAMBDA x : x.kind # "streak")

----------------------------------------------------------------------------
(* Properties of the default insight and of the time of day                *)

DefaultInsight == Insight("default", "", 0)

\* what the four checks appended, each computed on its own
FourChecks(E, observed) ==
    TimeOfDayCheck(E, observed) \o BalanceInsights(E) \o StreakInsight(E)
    \o DiversityInsight(E)

\* C21: the list is the single default insight exactly when none of the
\* four checks produced an insight; it is never empty and never holds the
\* default insight next to another one.
C21_DefaultOnlyWhenNothingElse ==
    \A k \in 1..Len(insights) :
        /\ insights[k] # <<>>
        /\ (insights[k] = <<DefaultInsight>>)
               = (FourChecks(WithoutTimeCategory(events_df), groupby_observed) = <<>>)
        /\ (\E i \in 1..Len(insights[k]) : insights[k][i] = DefaultInsight)
               => Len(insights[k]) = 1

\* the default insight was returned for a period of three themes
C21_Witness ==
    /\ insights = <<(<<DefaultInsight>>)>>
    /\ Len(events_df) >= 3

\* the buckets of section 4.3: [0, 12), [12, 17), [17, 24), in minutes
LeftClosedBucket(t) ==
    IF 0 <= t /\ t < 720 THEN "Morning"
    ELSE IF 720 <= t /\ t < 1020 THEN "Afternoon"
    ELSE IF 1020 <= t /\ t < 1440 THEN "Evening"
    ELSE "NaN"

\* C22 as stated: a record starting at hour h is Morning for 0 <= h < 12,
\* Afternoon for 12 <= h < 17 and Evening for 17 <= h < 24, and every
\* start hour in [0, 24) gets a bucket.
C22_LeftClosedBuckets ==
    \A i \in 1..Len(events_df) :
        events_df[i].Time_Category # ""
            => /\ events_df[i].Time_Category = LeftClosedBucket(events_df[i].Time)
               /\ events_df[i].Time_Category # "NaN"

\* the Generation minutes of the records of one bucket
BucketMinutes(E, bucket) ==
    MinutesOf(SelectSeq(OfTheme(E, "Generation"),
                        LAMBDA e : Time_Category(e.Time) = bucket))

\* C23 as stated: a time-of-day insight is in the list only when the bucket
\* it names holds Generation time.
C23_TimeInsightNeedsGenerationTime ==
    \A k \in 1..Len(insights) : \A i \in 1..Len(insights[k]) :
        insights[k][i].kind = "time_of_day"
            => BucketMinutes(events_df, insights[k][i].bucket) > 0

----------------------------------------------------------------------------
(* Properties of the classification of the coefficients                    *)

PairsOf(list) == {[domain |-> list[i].domain, metric |-> list[i].metric] : i \in 1..Len(list)}

EntriesOf(list) == {list[i] : i \in 1..Len(list)}

\* C24: every pair of correlation_matrix is classified on its coefficient
\* rounded to two decimals: it is in positive_correlations exactly when the
\* coefficient is above 0.3 and in negative_correlations exactly when it is
\* below -0.3, otherwise in neither list; every listed pair is in
\* correlation_matrix with the same coefficient, and no pair is in both lists.
C24_ClassifiedOnRoundedCoefficient ==
    \A k \in 1..Len(patterns) :
        LET matrix == EntriesOf(patterns[k].correlation_matrix)
            positive == EntriesOf(patterns[k].positive_correlations)
            negative == EntriesOf(patterns[k].negative_correlations)
        IN  /\ \A c \in matrix :
                 /\ c.correlation = RoundedCorr(DomainSeries(PivotRows(store), c.domain),
                                                MetricSeries(PivotRows(store), c.metric))
                 /\ (c \in positive) <=> (c.correlation > 30)
                 /\ (c \in negative) <=> (c.correlation < -30)
            /\ positive \subseteq matrix
            /\ negative \subseteq matrix
            /\ PairsOf(patterns[k].positive_correlations)
                    \cap PairsOf(patterns[k].negative_correlations) = {}
            /\ Len(patterns[k].positive_correlations) = Cardinality(positive)
            /\ Len(patterns[k].negative_correlations) = Cardinality(negative)

\* a result with a positive pair, a negative pair and a pair of the matrix
\* that is in neither list, its coefficient being between 0 and 0.3
C24_Witness ==
    \E k \in 1..Len(patterns) :
        /\ patterns[k].positive_correlations # <<>>
        /\ patterns[k].negative_correlations # <<>>
        /\ \E c \in EntriesOf(patterns[k].correlation_matrix) :
              /\ c.correlation > 0
              /\ c.correlation <= 30
              /\ c \notin EntriesOf(patterns[k].positive_correlations)

----------------------------------------------------------------------------
(* Properties of the text the categorizers read                            *)

\* C25 as stated: the label depends on the tag text as well as on the title
\* and the description: a record without a keyword in its title and its
\* description whose tags hold a keyword of a domain gets the first domain
\* with a keyword in its tags, not Other.
C25_TagsAreRead ==
    \A k \in 1..Len(labels) :
        LET text == Lower(event.summary \o " " \o event.description)
            tagged == Lower(event.tags)
        IN  /\ (MatchingDomains(keywords, text) = {} /\ MatchingDomains(keywords, tagged) # {})
                    => labels[k].Theme = FirstInFixedOrder(keywords, tagged)
            /\ (MatchingDomains(category_keywords, text) = {}
                    /\ MatchingDomains(category_keywords, tagged) # {})
                    => labels[k].category = FirstInFixedOrder(category_keywords, tagged)

----------------------------------------------------------------------------
(* Properties of the outcome metrics the core writes                       *)

\* C26 as stated: calculate_daily_metrics leaves the peace, freedom and
\* well_being of an existing outcome_metrics row as they are, and a row it
\* inserts gets no peace and no well_being computed from the sentiment.
C26_OutcomesAreReadOnly ==
    [][pc = "daily_metrics" =>
          \A date \in DOMAIN outcome_metrics' :
              IF date \in DOMAIN outcome_metrics
              THEN /\ outcome_metrics'[date].peace = outcome_metrics[date].peace
                   /\ outcome_metrics'[date].freedom = outcome_metrics[date].freedom
                   /\ outcome_metrics'[date].well_being = outcome_metrics[date].well_being
              ELSE /\ outcome_metrics'[date].peace = Null
                   /\ outcome_metrics'[date].well_being = Null]_vars

----------------------------------------------------------------------------
(* Properties of the result summary of a run                               *)

InSeq(x, list) == \E i \in 1..Len(list) : list[i] = x

\* C27 as stated: a pattern-analysis or recommendation step whose function
\* completed without an error is not in steps_failed, its result being
\* empty or not.
C27_EmptyResultIsNoFailure ==
    \A step \in {"pattern_analysis", "recommendations"} :
        (InSeq(step, attempted) /\ step \notin error_log)
            => ~InSeq(step, results.steps_failed)

\* C30: the success flag of a returned result is true exactly when
\* google_calendar is in steps_completed, whatever the other steps did; it
\* is false when the calendar import failed, and it is false at every point
\* before the last step, where an exception would end the run.
C30_SuccessIsCalendarSuccess ==
    /\ pc = "done"
          => (results.success <=> InSeq("google_calendar", results.steps_completed))
    /\ pc # "done" => ~results.success
    /\ InSeq("google_calendar", results.steps_failed) => ~results.success

\* a finished run that reports success although every step after the
\* calendar import failed
C30_Witness ==
    /\ pc = "done"
    /\ results.success
    /\ journal_path
    /\ results.steps_completed = <<"google_calendar">>
    /\ Len(results.steps_failed) = 4

----------------------------------------------------------------------------
(* Properties of the direction of a recommendation                         *)

\* C28 as stated: on the reported one-decimal values an increase suggests
\* more than the current percentage, a decrease and a review suggest less,
\* and a maintain and an optimize suggest the current percentage; for every
\* current percentage, 0 included.
C28_MovesAsNamed ==
    \A k \in 1..Len(runs) : \A i \in 1..Len(runs[k]) :
        LET r == runs[k][i]
        IN  /\ r.action = "increase" => r.suggested_percentage > r.current_percentage
            /\ r.action \in {"decrease", "review"}
                  => r.suggested_percentage < r.current_percentage
            /\ r.action \in {"maintain", "optimize"}
                  => r.suggested_percentage = r.current_percentage

----------------------------------------------------------------------------
(* Properties of the calendar import into the database                     *)

\* every event saved so far, in the order of the saves
SavedSoFar == Flatten([i \in 1..Len(save_log) |-> save_log[i].events])

SavedIds == {SavedSoFar[i].event_id : i \in 1..Len(SavedSoFar)}

\* the event of the latest save of an id
LatestSaved(event_id) ==
    LET saves == SelectSeq(SavedSoFar, LAMBDA ev : ev.event_id = event_id)
    IN  saves[Len(saves)]

RowsOfEvent(event_id) == SelectSeq(time_entry_rows, LAMBDA row : row.source = event_id)

\* the name of the activity a time entry points to
ActivityNames(activity_id) ==
    {activities[i].name : i \in {j \in 1..Len(activities) :
                                     activities[j].activity_id = activity_id}}

\* C29: after any sequence of saves time_entries holds exactly one row for
\* each event_id ever saved, with the category, the start and the minutes of
\* the latest save of the id, and no other row; saving the same frame again
\* leaves the number of time_entries rows and of activities rows as it was.
C29_OneRowPerEvent ==
    /\ \A event_id \in SavedIds :
          /\ Len(RowsOfEvent(event_id)) = 1
          /\ RowsOfEvent(event_id)[1].duration = LatestSaved(event_id).duration_minutes
          /\ RowsOfEvent(event_id)[1].start_time = LatestSaved(event_id).start_time
          /\ ActivityNames(RowsOfEvent(event_id)[1].activity_id)
                = {LatestSaved(event_id).category}
    /\ Len(time_entry_rows) = Cardinality(SavedIds)
    /\ \A i \in 1..(Len(save_log) - 1) :
          save_log[i + 1].events = save_log[i].events
              => /\ save_log[i + 1].entries = save_log[i].entries
                 /\ save_log[i + 1].activities = save_log[i].activities

\* a frame with two events of two categories was saved twice, and the frame
\* holds the same id twice with different minutes
C29_Witness ==
    /\ Len(save_log) = 2
    /\ save_log[1].events = save_log[2].events
    /\ Len(save_log[1].events) = 2
    /\ save_log[1].events[1].event_id = save_log[1].events[2].event_id
    /\ save_log[1].events[1].category # save_log[1].events[2].category
    /\ save_log[1].events[1].duration_minutes # save_log[1].events[2].duration_minutes
====
